---- MODULE Spec2Model ----
(***************************************************************************)
(* Installer related API views (games/views/installers.py).                *)
(*                                                                         *)
(* Every action is one HTTP request on one view: the framework's dispatch  *)
(* (permission check, exception handling) followed by the view's handler.  *)
(* The variable resp holds the request just served and what the handler    *)
(* did with it; the other variables are the persisted records.             *)
(***************************************************************************)
EXTENDS Integers, Sequences, FiniteSets, TLC

VARIABLES installers, versions, issues, replies, nextIssue, nextReply, resp

vars == <<installers, versions, issues, replies, nextIssue, nextReply, resp>>

db == <<installers, versions, issues, replies, nextIssue, nextReply>>

(* ---------------------------- bounds ----------------------------------- *)

\* The most issue and reply records the model persists.
MaxRecords == 2

(* ------------------------- status codes -------------------------------- *)

HTTP_200_OK == 200

HTTP_201_CREATED == 201

HTTP_202_ACCEPTED == 202

HTTP_204_NO_CONTENT == 204

HTTP_400_BAD_REQUEST == 400

HTTP_401_UNAUTHORIZED == 401

HTTP_403_FORBIDDEN == 403

HTTP_404_NOT_FOUND == 404

HTTP_500_INTERNAL_SERVER_ERROR == 500

(* ------------------------- requesters ---------------------------------- *)

\* request.user: AnonymousUser has id None (0 here), is not authenticated.
Users ==
    { [name |-> "anonymous", id |-> 0, is_authenticated |-> FALSE, is_staff |-> FALSE],
      [name |-> "member",    id |-> 1, is_authenticated |-> TRUE,  is_staff |-> FALSE],
      [name |-> "moderator", id |-> 2, is_authenticated |-> TRUE,  is_staff |-> TRUE] }

SAFE_METHODS == {"GET", "HEAD", "OPTIONS"}

\* common.permissions.IsAdminOrReadOnly
IsAdminOrReadOnly(method, user) == method \in SAFE_METHODS \/ user.is_staff

\* rest_framework.permissions.IsAdminUser
IsAdminUser(user) == user.is_staff

\* rest_framework.permissions.IsAuthenticated
IsAuthenticated(user) == user.is_authenticated

\* Statuses of a request that fails the permission check: 403, or 401 when
\* the requester is not authenticated and the authenticator sends a challenge.
DeniedStatuses(user) ==
    IF user.is_authenticated THEN {HTTP_403_FORBIDDEN}
    ELSE {HTTP_401_UNAUTHORIZED, HTTP_403_FORBIDDEN}

(* ------------------------- request payloads ---------------------------- *)

\* request.data is a parsed JSON object: a function from its keys to values.

EmptyData == [k \in {} |-> 0]

\* dict.get(key): None is modelled by the default passed in.
Get(d, k, default) == IF k \in DOMAIN d THEN d[k] ELSE default

\* d[key] = value
Put(d, k, v) == [x \in DOMAIN d \cup {k} |-> IF x = k THEN v ELSE d[x]]

\* dict(request.data): a copy of the parsed JSON object, key by key
DictCopy(d) == [k \in DOMAIN d |-> d[k]]

\* Python truthiness of a JSON boolean or number (False == 0, True == 1).
Truthy(v) == v # 0

(* ------------------------- fixed catalogue ----------------------------- *)

Games == {"quake", "doom"}

GameSlugs == Games \cup {"nosuchgame"}

\* Game "quake" has one installer, "setup"; game "doom" has none.
InstallerIds == {1}

InstallerPks == InstallerIds \cup {2}

InstallerGame(i) == "quake"

InstallerSlug(i) == "setup"

InstallerSlugs == {"setup", "nosuchinstaller"}

VersionPks == {1, 2}

IssuePks == {1, 2}

\* Values of timezone.now() while a request is served
Times == {10, 11}

NoKwargs == [pk |-> 0, slug |-> "", installer_slug |-> ""]

PkKwargs(pk) == [pk |-> pk, slug |-> "", installer_slug |-> ""]

SlugKwargs(slug) == [pk |-> 0, slug |-> slug, installer_slug |-> ""]

Idle ==
    [view |-> "", method |-> "", user |-> "", kwargs |-> NoKwargs, data |-> EmptyData,
     status |-> 0, handler |-> FALSE, exc |-> "", lookups |-> 0, now |-> 0,
     accepted |-> <<>>, forwarded |-> <<>>]

Init ==
    /\ installers = [i \in InstallerIds |-> [published |-> 0, published_by |-> 0, content |-> 0]]
    /\ versions = [v \in {1} |-> [installer |-> 1, content |-> 1]]
    /\ issues = {}
    /\ replies = {}
    /\ nextIssue = 1
    /\ nextReply = 1
    /\ resp = Idle

(* ------------------------- framework dispatch -------------------------- *)

\* Response status of an exception that leaves a handler: Http404 and
\* ValidationError are API errors; any other exception is not handled.
ExceptionStatus(exc) ==
    CASE exc = "Http404" -> HTTP_404_NOT_FOUND
      [] exc = "ValidationError" -> HTTP_400_BAD_REQUEST
      [] OTHER -> HTTP_500_INTERNAL_SERVER_ERROR

Request(view, method, user, kwargs, data) ==
    [Idle EXCEPT !.view = view, !.method = method, !.user = user.name,
                 !.kwargs = kwargs, !.data = data]

\* The permission check failed: the handler is not called.
Denied(req, user) ==
    /\ \E st \in DeniedStatuses(user) : resp' = [req EXCEPT !.status = st]
    /\ UNCHANGED db

\* The handler returned a response with this status.
Returned(req, st) == [req EXCEPT !.handler = TRUE, !.status = st]

\* The handler let this exception escape.
Raised(req, exc) ==
    [req EXCEPT !.handler = TRUE, !.exc = exc, !.status = ExceptionStatus(exc)]

(* ------------------------- InstallerListView --------------------------- *)

InstallerListView_get(user) ==
    /\ resp' = Returned(Request("InstallerListView", "GET", user, NoKwargs, EmptyData),
                        HTTP_200_OK)
    /\ UNCHANGED db

(* ------------------------- InstallerDetailView ------------------------- *)

DetailData ==
    { EmptyData,
      [published |-> 1],
      [published |-> 0, published_by |-> 1],
      [published |-> 1, published_by |-> 1] }

InstallerDetailView_permission(method, user) == IsAdminOrReadOnly(method, user)

\* serializers.InstallerSerializer, partial update of an instance
InstallerSerializer_update(instance, payload) ==
    [instance EXCEPT !.published = Get(payload, "published", instance.published),
                     !.published_by = Get(payload, "published_by", instance.published_by)]

\* UpdateModelMixin.update: get_object (404 when missing), then serializer.save();
\* every field of the serializer is taken as optional.
UpdateInstaller(req, pk, payload) ==
    IF pk \notin DOMAIN installers
    THEN /\ resp' = [Raised(req, "Http404") EXCEPT !.lookups = 1, !.forwarded = <<payload>>]
         /\ UNCHANGED db
    ELSE /\ installers' = [installers EXCEPT ![pk] = InstallerSerializer_update(@, payload)]
         /\ resp' = [Returned(req, HTTP_200_OK) EXCEPT !.lookups = 1, !.forwarded = <<payload>>]
         /\ UNCHANGED <<versions, issues, replies, nextIssue, nextReply>>

\* Variant: published_by is set only when the client sent none.
PublishPayload_keepClient(data, user) ==
    IF Truthy(Get(data, "published", 0)) /\ "published_by" \notin DOMAIN data
    THEN Put(data, "published_by", user.id)
    ELSE data

\* request.data after lines 34-36
PublishPayload(data, user) ==
    IF Truthy(Get(data, "published", 0))
    THEN Put(data, "published_by", user.id)
    ELSE data

InstallerDetailView_get(user, pk) ==
    LET req == Request("InstallerDetailView", "GET", user, PkKwargs(pk), EmptyData) IN
    /\ IF ~InstallerDetailView_permission("GET", user) THEN Denied(req, user)
       ELSE /\ resp' = IF pk \in DOMAIN installers
                       THEN [Returned(req, HTTP_200_OK) EXCEPT !.lookups = 1]
                       ELSE [Raised(req, "Http404") EXCEPT !.lookups = 1]
            /\ UNCHANGED db

InstallerDetailView_patch(user, pk, data) ==
    LET req == Request("InstallerDetailView", "PATCH", user, PkKwargs(pk), data) IN
    /\ IF ~InstallerDetailView_permission("PATCH", user) THEN Denied(req, user)
       ELSE UpdateInstaller(req, pk, PublishPayload(data, user))

InstallerDetailView_put(user, pk, data) ==
    LET req == Request("InstallerDetailView", "PUT", user, PkKwargs(pk), data) IN
    /\ IF ~InstallerDetailView_permission("PUT", user) THEN Denied(req, user)
       ELSE UpdateInstaller(req, pk, data)

\* DestroyModelMixin.destroy: get_object (404 when missing), then instance.delete(),
\* which takes the installer's issues and their replies with it.
InstallerDetailView_delete(user, pk) ==
    LET req == Request("InstallerDetailView", "DELETE", user, PkKwargs(pk), EmptyData) IN
    /\ IF ~InstallerDetailView_permission("DELETE", user) THEN Denied(req, user)
       ELSE IF pk \notin DOMAIN installers
       THEN /\ resp' = [Raised(req, "Http404") EXCEPT !.lookups = 1]
            /\ UNCHANGED db
       ELSE LET gone == {i \in issues : i.installer = pk} IN
            /\ installers' = [i \in DOMAIN installers \ {pk} |-> installers[i]]
            /\ issues' = issues \ gone
            /\ replies' = {r \in replies : r.issue \notin {i.id : i \in gone}}
            /\ resp' = [Returned(req, HTTP_204_NO_CONTENT) EXCEPT !.lookups = 1]
            /\ UNCHANGED <<versions, nextIssue, nextReply>>

(* ------------------------- GameInstallerListView ----------------------- *)

\* models.Installer.objects.fuzzy_filter(slug): a (possibly empty) list
GameInstallerListView_get(user, slug) ==
    /\ resp' = [Returned(Request("GameInstallerListView", "GET", user, SlugKwargs(slug),
                                 EmptyData), HTTP_200_OK)
                EXCEPT !.lookups = 1]
    /\ UNCHANGED db

(* ------------------------- GameRevisionListView ------------------------ *)

GameRevisionListView_permission(user) == IsAdminUser(user)

\* RetrieveModelMixin.retrieve over Game.objects.filter(change_for__isnull=True)
GameRevisionListView_get(user, slug) ==
    LET req == Request("GameRevisionListView", "GET", user, SlugKwargs(slug), EmptyData) IN
    /\ IF ~GameRevisionListView_permission(user) THEN Denied(req, user)
       ELSE /\ resp' = IF slug \in Games
                       THEN [Returned(req, HTTP_200_OK) EXCEPT !.lookups = 1]
                       ELSE [Raised(req, "Http404") EXCEPT !.lookups = 1]
            /\ UNCHANGED db

(* ------------------------- InstallerRevisionListView ------------------- *)

InstallerRevisionListView_permission(method, user) == IsAdminOrReadOnly(method, user)

\* get_queryset: Installer.objects.get(pk=...) raises Installer.DoesNotExist
InstallerRevisionListView_get(user, pk) ==
    LET req == Request("InstallerRevisionListView", "GET", user, PkKwargs(pk), EmptyData) IN
    /\ IF ~InstallerRevisionListView_permission("GET", user) THEN Denied(req, user)
       ELSE /\ resp' = IF pk \in DOMAIN installers
                       THEN [Returned(req, HTTP_200_OK) EXCEPT !.lookups = 1]
                       ELSE [Raised(req, "DoesNotExist") EXCEPT !.lookups = 1]
            /\ UNCHANGED db

\* What DestroyModelMixin.destroy would leave: the installer's revisions gone.
VersionsAfterListDelete_destroy(pk) ==
    [v \in {w \in DOMAIN versions : versions[w].installer # pk} |-> versions[v]]

\* The versions after the delete handler: it returns without touching any.
VersionsAfterListDelete(pk) == versions

InstallerRevisionListView_delete(user, pk) ==
    LET req == Request("InstallerRevisionListView", "DELETE", user, PkKwargs(pk), EmptyData) IN
    /\ IF ~InstallerRevisionListView_permission("DELETE", user) THEN Denied(req, user)
       ELSE /\ resp' = Returned(req, HTTP_204_NO_CONTENT)
            /\ versions' = VersionsAfterListDelete(pk)
            /\ UNCHANGED <<installers, issues, replies, nextIssue, nextReply>>

(* ------------------------- InstallerRevisionDetailView ----------------- *)

RevisionData ==
    { EmptyData,
      [action |-> "accept"],
      [action |-> "reject"],
      [action |-> "Accept"],
      [comment |-> "accept"] }

\* Variant: no permission class on the view.
InstallerRevisionDetailView_permission_any(method, user) == TRUE

InstallerRevisionDetailView_permission(method, user) == IsAdminOrReadOnly(method, user)

\* get_object: Version.DoesNotExist becomes Http404, which is no
\* ObjectDoesNotExist and so passes the handlers' except clauses.
InstallerRevisionDetailView_get_object(pk) ==
    IF pk \in DOMAIN versions THEN "found" ELSE "Http404"

\* Variant: any action value accepts.
IsAcceptAction_anyAction(data) == "action" \in DOMAIN data

\* request.data.get('action') == 'accept'
IsAcceptAction(data) == Get(data, "action", "None") = "accept"

\* models.InstallerRevision.accept: the revision's content becomes the live
\* installer's content.
InstallerRevision_accept(pk) ==
    LET rev == versions[pk] IN
    IF rev.installer \in DOMAIN installers
    THEN [installers EXCEPT ![rev.installer].content = rev.content]
    ELSE installers

InstallerRevisionDetailView_retrieve(user, pk) ==
    LET req == Request("InstallerRevisionDetailView", "GET", user, PkKwargs(pk), EmptyData) IN
    /\ IF ~InstallerRevisionDetailView_permission("GET", user) THEN Denied(req, user)
       ELSE /\ resp' = IF InstallerRevisionDetailView_get_object(pk) = "Http404"
                       THEN [Raised(req, "Http404") EXCEPT !.lookups = 1]
                       ELSE [Returned(req, HTTP_200_OK) EXCEPT !.lookups = 1]
            /\ UNCHANGED db

\* Variant: patch looks the revision up first, as put does.
RevisionPatchResponse_lookup(req, pk) ==
    IF InstallerRevisionDetailView_get_object(pk) = "Http404"
    THEN [Raised(req, "Http404") EXCEPT !.lookups = 1]
    ELSE [Returned(req, HTTP_400_BAD_REQUEST) EXCEPT !.lookups = 1]

\* The response of the patch handler
RevisionPatchResponse(req, pk) == Returned(req, HTTP_400_BAD_REQUEST)

InstallerRevisionDetailView_patch(user, pk, data) ==
    LET req == Request("InstallerRevisionDetailView", "PATCH", user, PkKwargs(pk), data) IN
    /\ IF ~InstallerRevisionDetailView_permission("PATCH", user) THEN Denied(req, user)
       ELSE /\ resp' = RevisionPatchResponse(req, pk)
            /\ UNCHANGED db

InstallerRevisionDetailView_put(user, pk, data) ==
    LET req == Request("InstallerRevisionDetailView", "PUT", user, PkKwargs(pk), data) IN
    /\ IF ~InstallerRevisionDetailView_permission("PUT", user) THEN Denied(req, user)
       ELSE IF InstallerRevisionDetailView_get_object(pk) = "Http404"
       THEN /\ resp' = [Raised(req, "Http404") EXCEPT !.lookups = 1]
            /\ UNCHANGED db
       ELSE IF IsAcceptAction(data)
       THEN /\ installers' = InstallerRevision_accept(pk)
            /\ resp' = [Returned(req, HTTP_202_ACCEPTED) EXCEPT
                           !.lookups = 1,
                           !.accepted = <<[revision |-> pk, user |-> user.name]>>]
            /\ UNCHANGED <<versions, issues, replies, nextIssue, nextReply>>
       ELSE /\ resp' = [Returned(req, HTTP_404_NOT_FOUND) EXCEPT !.lookups = 1]
            /\ UNCHANGED db

\* DestroyModelMixin.destroy: get_object, then InstallerRevision.delete()
InstallerRevisionDetailView_delete(user, pk) ==
    LET req == Request("InstallerRevisionDetailView", "DELETE", user, PkKwargs(pk), EmptyData) IN
    /\ IF ~InstallerRevisionDetailView_permission("DELETE", user) THEN Denied(req, user)
       ELSE IF InstallerRevisionDetailView_get_object(pk) = "Http404"
       THEN /\ resp' = [Raised(req, "Http404") EXCEPT !.lookups = 1]
            /\ UNCHANGED db
       ELSE /\ versions' = [v \in DOMAIN versions \ {pk} |-> versions[v]]
            /\ resp' = [Returned(req, HTTP_204_NO_CONTENT) EXCEPT !.lookups = 1]
            /\ UNCHANGED <<installers, issues, replies, nextIssue, nextReply>>

(* ------------------------- InstallerIssueView -------------------------- *)

\* get_queryset: Game.objects.get(slug=slug) raises Game.DoesNotExist
InstallerIssueView_get(user, slug) ==
    LET req == Request("InstallerIssueView", "GET", user, SlugKwargs(slug), EmptyData) IN
    /\ resp' = IF slug \in Games
               THEN [Returned(req, HTTP_200_OK) EXCEPT !.lookups = 1]
               ELSE [Raised(req, "DoesNotExist") EXCEPT !.lookups = 1]
    /\ UNCHANGED db

(* ------------------------- InstallerIssueCreateView -------------------- *)

IssueData ==
    { EmptyData,
      [description |-> "crash"],
      [description |-> "crash", submitted_by |-> 2, submitted_on |-> 99,
       installer |-> 2, issue |-> 7] }

\* Variant: no permission class on the view.
InstallerIssueCreateView_permission_any(user) == TRUE

InstallerIssueCreateView_permission(user) == IsAuthenticated(user)

\* get_queryset: Installer.objects.filter(game__slug=...).get(slug=...)
InstallerIssueCreateView_get_queryset(game_slug, installer_slug) ==
    {i \in DOMAIN installers : InstallerGame(i) = game_slug /\ InstallerSlug(i) = installer_slug}

\* Variant: the submitter and time are set only when the client sent none.
IssueSubmitter_setdefault(payload, user, time) ==
    LET by == IF "submitted_by" \in DOMAIN payload THEN payload
              ELSE Put(payload, "submitted_by", user.id) IN
    IF "submitted_on" \in DOMAIN by THEN by ELSE Put(by, "submitted_on", time)

\* issue_payload['submitted_by'], issue_payload['submitted_on']
IssueSubmitter(payload, user, time) ==
    Put(Put(payload, "submitted_by", user.id), "submitted_on", time)

\* Variant: the installer is set only when the client sent none.
IssueInstaller_setdefault(payload, installer) ==
    IF "installer" \in DOMAIN payload THEN payload ELSE Put(payload, "installer", installer)

\* issue_payload['installer'] = self.get_queryset().id
IssueInstaller(payload, installer) == Put(payload, "installer", installer)

\* serializers.InstallerIssueSerializer.is_valid
InstallerIssueSerializer_is_valid(payload) ==
    /\ Get(payload, "description", "") # ""
    /\ Get(payload, "installer", 0) \in DOMAIN installers
    /\ Get(payload, "submitted_by", 0) \in {u.id : u \in Users} \ {0}

\* Variant: is_valid() without raise_exception.
IssueValidationRaises_never(payload) == FALSE

\* serializer.is_valid(raise_exception=True)
IssueValidationRaises(payload) == ~InstallerIssueSerializer_is_valid(payload)

\* serializers.InstallerIssueSerializer.save
InstallerIssueSerializer_save(payload) ==
    [id |-> nextIssue,
     installer |-> Get(payload, "installer", 0),
     submitted_by |-> Get(payload, "submitted_by", 0),
     submitted_on |-> Get(payload, "submitted_on", 0),
     description |-> Get(payload, "description", "")]

InstallerIssueCreateView_create(user, game_slug, installer_slug, data) ==
    LET req == Request("InstallerIssueCreateView", "POST", user,
                       [pk |-> 0, slug |-> game_slug, installer_slug |-> installer_slug], data)
        found == InstallerIssueCreateView_get_queryset(game_slug, installer_slug)
    IN
    /\ Cardinality(issues) + Cardinality(replies) < MaxRecords
    /\ IF ~InstallerIssueCreateView_permission(user) THEN Denied(req, user)
       ELSE \E t \in Times :
            LET at == [req EXCEPT !.now = t] IN
            IF found = {}
            THEN /\ resp' = [Raised(at, "DoesNotExist") EXCEPT !.lookups = 1]
                 /\ UNCHANGED db
            ELSE
            LET issue_payload ==
                    IssueInstaller(IssueSubmitter(DictCopy(data), user, t),
                                   CHOOSE i \in found : TRUE)
            IN
            IF IssueValidationRaises(issue_payload)
            THEN /\ resp' = [Raised(at, "ValidationError") EXCEPT
                                !.lookups = 1, !.forwarded = <<issue_payload>>]
                 /\ UNCHANGED db
            ELSE /\ issues' = issues \cup {InstallerIssueSerializer_save(issue_payload)}
                 /\ nextIssue' = nextIssue + 1
                 /\ resp' = [Returned(at, HTTP_201_CREATED) EXCEPT
                                !.lookups = 1, !.forwarded = <<issue_payload>>]
                 /\ UNCHANGED <<installers, versions, replies, nextReply>>

(* ------------------------- InstallerIssueReplyView --------------------- *)

InstallerIssueReplyView_permission(user) == IsAuthenticated(user)

\* get_object: InstallerIssue.objects.get(pk=issue_id) raises DoesNotExist
InstallerIssueReplyView_get_object(pk) == {i \in issues : i.id = pk}

\* reply_payload['submitted_by'], reply_payload['submitted_on']
ReplySubmitter(payload, user, time) ==
    Put(Put(payload, "submitted_by", user.id), "submitted_on", time)

\* reply_payload['issue'] = issue_id
ReplyIssue(payload, issue_id) == Put(payload, "issue", issue_id)

\* serializers.InstallerIssueReplySerializer.is_valid
InstallerIssueReplySerializer_is_valid(payload) ==
    /\ Get(payload, "description", "") # ""
    /\ Get(payload, "issue", 0) \in {i.id : i \in issues}
    /\ Get(payload, "submitted_by", 0) \in {u.id : u \in Users} \ {0}

\* serializer.is_valid(raise_exception=True)
ReplyValidationRaises(payload) == ~InstallerIssueReplySerializer_is_valid(payload)

\* serializers.InstallerIssueReplySerializer.save
InstallerIssueReplySerializer_save(payload) ==
    [id |-> nextReply,
     issue |-> Get(payload, "issue", 0),
     submitted_by |-> Get(payload, "submitted_by", 0),
     submitted_on |-> Get(payload, "submitted_on", 0),
     description |-> Get(payload, "description", "")]

InstallerIssueReplyView_create(user, pk, data) ==
    LET req == Request("InstallerIssueReplyView", "POST", user, PkKwargs(pk), data) IN
    /\ Cardinality(issues) + Cardinality(replies) < MaxRecords
    /\ IF ~InstallerIssueReplyView_permission(user) THEN Denied(req, user)
       ELSE \E t \in Times :
            LET at == [req EXCEPT !.now = t]
                reply_payload == ReplyIssue(ReplySubmitter(DictCopy(data), user, t), pk)
            IN
            IF ReplyValidationRaises(reply_payload)
            THEN /\ resp' = [Raised(at, "ValidationError") EXCEPT
                                !.forwarded = <<reply_payload>>]
                 /\ UNCHANGED db
            ELSE /\ replies' = replies \cup {InstallerIssueReplySerializer_save(reply_payload)}
                 /\ nextReply' = nextReply + 1
                 /\ resp' = [Returned(at, HTTP_201_CREATED) EXCEPT
                                !.forwarded = <<reply_payload>>]
                 /\ UNCHANGED <<installers, versions, issues, nextIssue>>

\* RetrieveModelMixin.retrieve through get_object
InstallerIssueReplyView_get(user, pk) ==
    LET req == Request("InstallerIssueReplyView", "GET", user, PkKwargs(pk), EmptyData) IN
    /\ IF ~InstallerIssueReplyView_permission(user) THEN Denied(req, user)
       ELSE /\ resp' = IF InstallerIssueReplyView_get_object(pk) = {}
                       THEN [Raised(req, "DoesNotExist") EXCEPT !.lookups = 1]
                       ELSE [Returned(req, HTTP_200_OK) EXCEPT !.lookups = 1]
            /\ UNCHANGED db

(* ------------------------- the API ------------------------------------- *)

UrlPairs == {<<"quake", "setup">>, <<"doom", "setup">>, <<"quake", "nosuchinstaller">>}

NextInstallers ==
    \/ \E u \in Users : InstallerListView_get(u)
    \/ \E u \in Users, pk \in InstallerPks : InstallerDetailView_get(u, pk)
    \/ \E u \in Users, pk \in InstallerPks, d \in DetailData : InstallerDetailView_patch(u, pk, d)
    \/ \E u \in Users, pk \in InstallerPks, d \in DetailData : InstallerDetailView_put(u, pk, d)
    \/ \E u \in Users, pk \in InstallerPks : InstallerDetailView_delete(u, pk)
    \/ \E u \in Users, s \in GameSlugs : GameInstallerListView_get(u, s)
    \/ \E u \in Users, s \in GameSlugs : GameRevisionListView_get(u, s)
    \/ \E u \in Users, pk \in InstallerPks : InstallerRevisionListView_get(u, pk)
    \/ \E u \in Users, pk \in InstallerPks : InstallerRevisionListView_delete(u, pk)
    \/ \E u \in Users, pk \in VersionPks : InstallerRevisionDetailView_retrieve(u, pk)
    \/ \E u \in Users, pk \in VersionPks, d \in RevisionData :
           InstallerRevisionDetailView_patch(u, pk, d)
    \/ \E u \in Users, pk \in VersionPks, d \in RevisionData :
           InstallerRevisionDetailView_put(u, pk, d)
    \/ \E u \in Users, pk \in VersionPks : InstallerRevisionDetailView_delete(u, pk)

NextIssues ==
    \/ \E u \in Users, s \in GameSlugs : InstallerIssueView_get(u, s)
    \/ \E u \in Users, url \in UrlPairs, d \in IssueData :
           InstallerIssueCreateView_create(u, url[1], url[2], d)
    \/ \E u \in Users, pk \in IssuePks, d \in IssueData : InstallerIssueReplyView_create(u, pk, d)
    \/ \E u \in Users, pk \in IssuePks : InstallerIssueReplyView_get(u, pk)

Next == NextInstallers \/ NextIssues

\* Every view of the module
Spec == Init /\ [][Next]_vars

\* The installer and revision views
SpecInstallers == Init /\ [][NextInstallers]_vars

\* The issue and reply views
SpecIssues == Init /\ [][NextIssues]_vars

(* ------------------------- properties ---------------------------------- *)

On(r, view, method) == r.view = view /\ r.method = method

Requester(r) == CHOOSE u \in Users : u.name = r.user

AsksAccept(d) == "action" \in DOMAIN d /\ d["action"] = "accept"

AcceptedOnce(r) == r.accepted = <<[revision |-> r.kwargs.pk, user |-> r.user]>>

RejectedByPermission(r) ==
    /\ ~r.handler
    /\ r.status \in {HTTP_401_UNAUTHORIZED, HTTP_403_FORBIDDEN}
    /\ r.lookups = 0
    /\ r.accepted = <<>>
    /\ r.forwarded = <<>>

\* C1 as stated: every PUT on the revision detail endpoint whose pk names an
\* existing version is answered 202 with accept invoked once with the
\* requesting user when action is exactly "accept", and 404 with accept not
\* invoked and the installers unchanged for any other or missing action.
C1_PutAcceptAnyRequester ==
    [][ (On(resp', "InstallerRevisionDetailView", "PUT") /\ resp'.kwargs.pk \in DOMAIN versions)
        => IF AsksAccept(resp'.data)
           THEN AcceptedOnce(resp') /\ resp'.status = HTTP_202_ACCEPTED
           ELSE /\ resp'.status = HTTP_404_NOT_FOUND
                /\ resp'.accepted = <<>>
                /\ installers' = installers ]_vars

\* C1 amended: the same holds for a PUT from an admin (staff) requester; a PUT
\* from any other requester is rejected by the permission check with 401 or
\* 403, accept is not invoked and the installers are unchanged.
C1_PutAcceptByAdmin ==
    [][ (On(resp', "InstallerRevisionDetailView", "PUT") /\ resp'.kwargs.pk \in DOMAIN versions)
        => IF Requester(resp').is_staff
           THEN IF AsksAccept(resp'.data)
                THEN AcceptedOnce(resp') /\ resp'.status = HTTP_202_ACCEPTED
                ELSE /\ resp'.status = HTTP_404_NOT_FOUND
                     /\ resp'.accepted = <<>>
                     /\ installers' = installers
           ELSE RejectedByPermission(resp') /\ installers' = installers ]_vars

\* An admin's PUT with action "accept" on an existing version was answered 202
\* and changed the live installer.
C1_Witness ==
    /\ On(resp, "InstallerRevisionDetailView", "PUT")
    /\ resp.user = "moderator"
    /\ AsksAccept(resp.data)
    /\ resp.status = HTTP_202_ACCEPTED
    /\ AcceptedOnce(resp)
    /\ 1 \in DOMAIN installers /\ installers[1].content = 1

\* C2 as stated: every DELETE on the revision list endpoint is answered 204
\* and leaves the installers and the revisions as they were.
C2_DeleteAlways204 ==
    [][ On(resp', "InstallerRevisionListView", "DELETE")
        => /\ resp'.status = HTTP_204_NO_CONTENT
           /\ installers' = installers
           /\ versions' = versions ]_vars

\* C2 amended: a DELETE on the revision list endpoint from an admin (staff)
\* requester is answered 204, one from any other requester is rejected by the
\* permission check with 401 or 403; in both cases, for every pk, the
\* installers and the revisions are as they were.
C2_DeleteRemovesNothing ==
    [][ On(resp', "InstallerRevisionListView", "DELETE")
        => /\ IF Requester(resp').is_staff
              THEN resp'.handler /\ resp'.status = HTTP_204_NO_CONTENT
              ELSE RejectedByPermission(resp')
           /\ installers' = installers
           /\ versions' = versions ]_vars

\* An admin's DELETE for an installer that has a revision was answered 204.
C2_Witness ==
    /\ On(resp, "InstallerRevisionListView", "DELETE")
    /\ resp.user = "moderator"
    /\ resp.status = HTTP_204_NO_CONTENT
    /\ \E v \in DOMAIN versions : versions[v].installer = resp.kwargs.pk

\* C3: for every PATCH on the installer detail endpoint whose payload has a
\* truthy 'published', the payload forwarded to the update has published_by
\* equal to the requesting user's id, whatever published_by the client sent.
C3_PublisherIsRequester ==
    (On(resp, "InstallerDetailView", "PATCH") /\ "published" \in DOMAIN resp.data
       /\ resp.data["published"] # 0)
    => /\ resp.handler => Len(resp.forwarded) = 1
       /\ \A i \in 1 .. Len(resp.forwarded) :
            /\ "published_by" \in DOMAIN resp.forwarded[i]
            /\ resp.forwarded[i]["published_by"] = Requester(resp).id

\* A publishing PATCH that carried another user's id as published_by was
\* applied to an existing installer.
C3_Witness ==
    /\ On(resp, "InstallerDetailView", "PATCH")
    /\ resp.data = [published |-> 1, published_by |-> 1]
    /\ resp.user = "moderator"
    /\ resp.status = HTTP_200_OK
    /\ installers[resp.kwargs.pk].published_by = 2

IsCreate(r) ==
    On(r, "InstallerIssueCreateView", "POST") \/ On(r, "InstallerIssueReplyView", "POST")

\* C4: the payload handed to the serializer by issue creation and by reply
\* creation has submitted_by equal to the requesting user's id and
\* submitted_on equal to the server's current time, whatever the client sent
\* for the two keys; a create answered 201 or 400 handed over such a payload.
C4_SubmitterStampedServerSide ==
    IsCreate(resp)
    => /\ resp.status \in {HTTP_201_CREATED, HTTP_400_BAD_REQUEST} => Len(resp.forwarded) = 1
       /\ \A i \in 1 .. Len(resp.forwarded) :
            /\ {"submitted_by", "submitted_on"} \subseteq DOMAIN resp.forwarded[i]
            /\ resp.forwarded[i]["submitted_by"] = Requester(resp).id
            /\ resp.forwarded[i]["submitted_on"] = resp.now
            /\ resp.now \in Times

\* An issue was created from a payload that named another submitter and time.
C4_Witness ==
    /\ On(resp, "InstallerIssueCreateView", "POST")
    /\ resp.user = "member"
    /\ {"submitted_by", "submitted_on"} \subseteq DOMAIN resp.data
    /\ resp.data["submitted_by"] = 2 /\ resp.data["submitted_on"] = 99
    /\ resp.status = HTTP_201_CREATED
    /\ \E i \in issues : i.submitted_by = 1 /\ i.submitted_on = resp.now

\* C5: a POST to issue creation or reply creation from a requester who is not
\* authenticated does not reach the create handler, hands nothing to a
\* serializer, is not answered 201 and leaves the issues and replies as they
\* were.
C5_UnauthenticatedCreateRejected ==
    [][ (IsCreate(resp') /\ ~Requester(resp').is_authenticated)
        => /\ ~resp'.handler
           /\ resp'.forwarded = <<>>
           /\ resp'.status \in {HTTP_401_UNAUTHORIZED, HTTP_403_FORBIDDEN}
           /\ issues' = issues
           /\ replies' = replies ]_vars

\* An anonymous requester posted an otherwise valid reply to an existing issue.
C5_Witness ==
    /\ On(resp, "InstallerIssueReplyView", "POST")
    /\ resp.user = "anonymous"
    /\ resp.data = [description |-> "crash"]
    /\ \E i \in issues : i.id = resp.kwargs.pk
    /\ resp.status = HTTP_401_UNAUTHORIZED

MissingRecord(r) ==
    \/ On(r, "InstallerRevisionListView", "GET") /\ r.kwargs.pk \notin DOMAIN installers
    \/ On(r, "InstallerIssueView", "GET") /\ r.kwargs.slug \notin Games
    \/ /\ On(r, "InstallerIssueCreateView", "POST")
       /\ ~\E i \in DOMAIN installers :
             InstallerGame(i) = r.kwargs.slug /\ InstallerSlug(i) = r.kwargs.installer_slug
    \/ /\ r.view = "InstallerIssueReplyView" /\ r.method \in {"GET", "POST"}
       /\ ~\E i \in issues : i.id = r.kwargs.pk
    \/ /\ r.view = "InstallerRevisionDetailView" /\ r.method \in {"GET", "PUT"}
       /\ r.kwargs.pk \notin DOMAIN versions

\* C6: a request that passed the permission check and names a missing record
\* (revisions of a missing installer, issues of a missing game, an issue for a
\* missing game/installer pair, retrieving or replying to a missing issue,
\* GET or PUT on a missing revision) ends in a 404 response, not in an
\* unhandled exception or another status.
C6_MissingRecordsYield404 ==
    (resp.handler /\ MissingRecord(resp))
    => resp.status = HTTP_404_NOT_FOUND /\ resp.exc \in {"", "Http404"}

\* C7 as stated: every PATCH on the revision detail endpoint is answered 400,
\* looks up no record, does not invoke accept and changes no installer or
\* revision.
C7_PatchAlways400 ==
    [][ On(resp', "InstallerRevisionDetailView", "PATCH")
        => /\ resp'.status = HTTP_400_BAD_REQUEST
           /\ resp'.lookups = 0
           /\ resp'.accepted = <<>>
           /\ installers' = installers
           /\ versions' = versions ]_vars

\* C7 amended: a PATCH on the revision detail endpoint from an admin (staff)
\* requester is answered 400 for every payload and pk, one from any other
\* requester is rejected by the permission check with 401 or 403; in both
\* cases no record is looked up, accept is not invoked and the installers and
\* revisions are unchanged.
C7_PatchIsFixedError ==
    [][ On(resp', "InstallerRevisionDetailView", "PATCH")
        => /\ IF Requester(resp').is_staff
              THEN resp'.handler /\ resp'.status = HTTP_400_BAD_REQUEST /\ resp'.exc = ""
              ELSE RejectedByPermission(resp')
           /\ resp'.lookups = 0
           /\ resp'.accepted = <<>>
           /\ installers' = installers
           /\ versions' = versions ]_vars

\* An admin's PATCH with action "accept" on a missing revision was answered 400.
C7_Witness ==
    /\ On(resp, "InstallerRevisionDetailView", "PATCH")
    /\ resp.user = "moderator"
    /\ AsksAccept(resp.data)
    /\ resp.kwargs.pk \notin DOMAIN versions
    /\ resp.status = HTTP_400_BAD_REQUEST

\* C8: for a create by an authenticated user that reached the serializer, a
\* payload the serializer finds invalid is answered 400 and persists nothing,
\* a valid one persists exactly one new record (an issue for issue creation,
\* a reply for reply creation) and is answered 201; a create answered
\* anything but 201 persists nothing.
C8_InvalidRejectedValidCreated ==
    [][ (IsCreate(resp') /\ Requester(resp').is_authenticated)
        => /\ resp'.status # HTTP_201_CREATED => issues' = issues /\ replies' = replies
           /\ \A i \in 1 .. Len(resp'.forwarded) :
                IF resp'.view = "InstallerIssueCreateView"
                THEN IF InstallerIssueSerializer_is_valid(resp'.forwarded[i])
                     THEN /\ resp'.status = HTTP_201_CREATED
                          /\ issues \subseteq issues'
                          /\ Cardinality(issues') = Cardinality(issues) + 1
                          /\ replies' = replies
                     ELSE /\ resp'.status = HTTP_400_BAD_REQUEST
                          /\ issues' = issues /\ replies' = replies
                ELSE IF InstallerIssueReplySerializer_is_valid(resp'.forwarded[i])
                     THEN /\ resp'.status = HTTP_201_CREATED
                          /\ replies \subseteq replies'
                          /\ Cardinality(replies') = Cardinality(replies) + 1
                          /\ issues' = issues
                     ELSE /\ resp'.status = HTTP_400_BAD_REQUEST
                          /\ issues' = issues /\ replies' = replies ]_vars

\* After an issue was created, a payload without a description was refused.
C8_Witness ==
    /\ On(resp, "InstallerIssueCreateView", "POST")
    /\ resp.user = "member"
    /\ resp.data = EmptyData
    /\ Len(resp.forwarded) = 1
    /\ resp.status = HTTP_400_BAD_REQUEST
    /\ Cardinality(issues) = 1

AdminWriteViews ==
    {"InstallerDetailView", "InstallerRevisionListView", "InstallerRevisionDetailView"}

\* C9: every step that invokes accept, or changes or removes an installer or
\* a revision, serves an admin (staff) requester; a requester who is not
\* admin reaches only handlers of read-only methods on the installer detail,
\* revision list and revision detail endpoints, and reaches no handler of the
\* game revision endpoint.
C9_OnlyAdminsWrite ==
    [][ /\ (resp'.accepted # <<>> \/ installers' # installers \/ versions' # versions)
           => Requester(resp').is_staff
        /\ (resp'.view \in AdminWriteViews /\ resp'.handler /\ ~Requester(resp').is_staff)
           => resp'.method \in {"GET", "HEAD", "OPTIONS"}
        /\ (resp'.view = "GameRevisionListView" /\ resp'.handler)
           => Requester(resp').is_staff ]_vars

\* A non-admin asked to accept an existing revision and was refused, after an
\* admin had published the installer.
C9_Witness ==
    /\ On(resp, "InstallerRevisionDetailView", "PUT")
    /\ resp.user = "member"
    /\ AsksAccept(resp.data)
    /\ resp.kwargs.pk \in DOMAIN versions
    /\ resp.status = HTTP_403_FORBIDDEN
    /\ 1 \in DOMAIN installers /\ installers[1].published_by = 2

ServerKeys(r) ==
    IF r.view = "InstallerIssueCreateView"
    THEN {"submitted_by", "submitted_on", "installer"}
    ELSE {"submitted_by", "submitted_on", "issue"}

\* C10: the payload handed to the serializer by issue creation has
\* 'installer' equal to the id of the installer matched by the URL's
\* game_slug and installer_slug, the one handed over by reply creation has
\* 'issue' equal to the URL's pk, whatever the client sent for these keys;
\* every other key the client sent, apart from submitted_by and
\* submitted_on, is in the payload with the client's value, and no other key
\* is; a created issue or reply carries that installer or issue.
C10_TargetBoundToUrl ==
    IsCreate(resp)
    => \A n \in 1 .. Len(resp.forwarded) :
         LET p == resp.forwarded[n] IN
         /\ DOMAIN p = DOMAIN resp.data \cup ServerKeys(resp)
         /\ \A k \in DOMAIN resp.data \ ServerKeys(resp) : p[k] = resp.data[k]
         /\ IF resp.view = "InstallerIssueCreateView"
            THEN /\ \E i \in DOMAIN installers :
                      /\ InstallerGame(i) = resp.kwargs.slug
                      /\ InstallerSlug(i) = resp.kwargs.installer_slug
                      /\ p["installer"] = i
                 /\ resp.status = HTTP_201_CREATED
                    => \E i \in issues : i.id = nextIssue - 1 /\ i.installer = p["installer"]
            ELSE /\ p["issue"] = resp.kwargs.pk
                 /\ resp.status = HTTP_201_CREATED
                    => \E r \in replies : r.id = nextReply - 1 /\ r.issue = resp.kwargs.pk

\* An issue was created from a payload that named another installer.
C10_Witness ==
    /\ On(resp, "InstallerIssueCreateView", "POST")
    /\ "installer" \in DOMAIN resp.data /\ resp.data["installer"] = 2
    /\ resp.status = HTTP_201_CREATED
    /\ \E i \in issues : i.installer = 1 /\ i.description = "crash"

====
